---- MODULE Spec2Model ----
(***************************************************************************)
(* Model of GazeboRosActorCommand (src/src/gazebo_ros_actor_command.cpp):  *)
(* the per-tick motion controller of a simulated actor, its three command  *)
(* handlers and their worker threads, and the destructor.                   *)
(*                                                                         *)
(* Units.  Lengths are integers (one unit of the source's doubles), angles *)
(* are integer degrees, times are integer seconds.  All waypoints lie on   *)
(* the x axis and every angle that arises is a multiple of 90 degrees, so  *)
(* Length, the unit vector, atan2, cos and sin are exact on every value    *)
(* the model reaches.                                                       *)
(*                                                                         *)
(* Three specifications share the variables:                                *)
(*   Spec          each handler and each tick is one step (the program as  *)
(*                 a sequence of commands and ticks);                       *)
(*   RaceSpec      the tick thread and the worker threads interleave at    *)
(*                 the granularity of the source's statements (the source  *)
(*                 holds no lock);                                          *)
(*   ShutdownSpec  the destructor, the three worker loops and the callback *)
(*                 queues.                                                  *)
(***************************************************************************)
EXTENDS Integers, Sequences, FiniteSets, TLC

VARIABLES
  follow_mode_,      \* "path" | "velocity" (SDF, fixed at Load)
  default_rotation_, \* yaw offset in degrees (SDF, fixed at Load)
  skelAnims,         \* the actor's skeleton animations at Load
  trajectoryInfo_,   \* "null", or the type of the custom trajectory
  pose,              \* the actor's world pose <<x, y, yaw>>
  script_time,       \* the actor's ScriptTime (animation clock)
  odom,              \* the last odometry record published
  target_poses_,     \* the waypoint list, a sequence of <<x, y, yaw>>
  idx_,              \* the target index (0-based, as in the source)
  target_pose_,      \* the current target <<x, y, yaw>>
  abort_,            \* the abort flag
  cmd_queue_,        \* the internal velocity sample queue
  target_vel_,       \* the held requested velocity <<linear, angular>>
  fault,             \* "none", or the error that ended the process
  last_op,           \* the operation that completed last; for a tick
                     \* <<"tick", branch, distance to the target, dt,
                     \*   angular error, rot_sign>>
  scenario_ticks,    \* ticks of the straight-line scenario so far, or -1
  pushed,            \* the samples VelCallback pushed, in order
  applied,           \* the samples OnUpdate consumed, in order
  abandoned,         \* the non-empty waypoint list the hold branch discarded
                     \* last, <<>> once a path command has replaced it
  tick_pc,           \* RaceSpec: position of the tick thread in OnUpdate
  t,                 \* RaceSpec: the locals of the running OnUpdate
  path_w,            \* RaceSpec: position of the path worker in PathCallback
  vel_w,             \* RaceSpec: position of the velocity worker in push
  dtor_pc,           \* ShutdownSpec: position of the destructor
  worker_pc,         \* ShutdownSpec: position of each worker loop
  queue_enabled,     \* ShutdownSpec: each callback queue's enabled flag
  queue_pending,     \* ShutdownSpec: each callback queue's pending message
  node_ok            \* ShutdownSpec: ros_node_->ok()

cfgVars == <<follow_mode_, default_rotation_, skelAnims>>
hostVars == <<trajectoryInfo_, pose, script_time, odom>>
targetVars == <<target_poses_, idx_, target_pose_, abort_>>
velVars == <<cmd_queue_, target_vel_>>
obsVars == <<last_op, scenario_ticks, pushed, applied, abandoned>>
raceVars == <<tick_pc, t, path_w, vel_w>>
shutVars == <<dtor_pc, worker_pc, queue_enabled, queue_pending, node_ok>>
vars == <<cfgVars, hostVars, targetVars, velVars, fault, obsVars, raceVars, shutVars>>

----------------------------------------------------------------------------
(* Bounds of the exploration *)

\* Longest waypoint list of a path command.
MaxPathLen == 2
\* Velocity samples pushed in one Velocity-Following run.
MaxCmds == 2
\* Velocity samples pushed in one Path-Following run, where no tick consumes
\* them and the queue only grows.
MaxIdleCmds == 1
\* A tick moves the actor only while the distance travelled stays within this.
MaxTravel == 4
\* Length of the straight-line scenario, in ticks.
ScenarioTicks == 10

\* The tick lengths dt, in seconds
Dts == {0, 1, 3}

----------------------------------------------------------------------------
(* Program constants *)

WALKING_ANIMATION == "walking"
STANDING_ANIMATION == "standing"

\* lin_tolerance_ = 0.1, as the fraction lin_tolerance_num / lin_tolerance_den
lin_tolerance_num == 1
lin_tolerance_den == 10
lin_velocity_ == 1
\* ang_tolerance_ = IGN_DTOR(5)
ang_tolerance_ == 5
\* angular_velocity as given by the SDF element: 90 degrees per second
ang_velocity_ == 90
\* animation_factor_ = 4.0
animation_factor_ == 4

----------------------------------------------------------------------------
(* Arithmetic of the source's doubles, vectors and angles *)

Abs(n) == IF n < 0 THEN -n ELSE n

\* The integer square root; exact on the squares the model reaches.
ISqrt(n) == CHOOSE r \in 0..n : r * r <= n /\ (r + 1) * (r + 1) > n

\* ignition::math::Vector2d / Vector3d::Length
Length(v) == ISqrt(v[1] * v[1] + v[2] * v[2])

\* target - current, on the x and y of two <<x, y, ...>> tuples
Displacement(target, p) == <<target[1] - p[1], target[2] - p[2]>>

\* pos / pos.Length(), when the length is not zero
Normalized(pos) ==
  IF Length(pos) # 0
  THEN <<pos[1] \div Length(pos), pos[2] \div Length(pos)>>
  ELSE pos

\* ignition::math::Angle::Normalize, atan2(sin a, cos a): the result lies in
\* [-180, 180]; an odd multiple of 180 keeps its sign, as atan2 does on the
\* floating-point sine of such an angle.
NormalizeDeg(a) ==
  LET r == ((a + 179) % 360) - 179
  IN IF r = 180 /\ a < 0 THEN -180 ELSE r

\* atan2(y, x) in degrees, on the unit vectors along the axes
Atan2Deg(v) ==
  CASE v = <<1, 0>> -> 0
    [] v = <<0, 1>> -> 90
    [] v = <<-1, 0>> -> 180
    [] v = <<0, -1>> -> -90

\* cos and sin of a multiple of 90 degrees
CosDeg(a) ==
  CASE a % 360 = 0 -> 1
    [] a % 360 = 90 -> 0
    [] a % 360 = 180 -> -1
    [] a % 360 = 270 -> 0

SinDeg(a) == CosDeg(a - 90)

\* distance < lin_tolerance_
BelowTolerance(distance) == distance * lin_tolerance_den < lin_tolerance_num

\* yaw.Radian() / dt in floating point: 0/0 is NaN, x/0 is infinite
AngularOverDt(yaw, dt) ==
  IF dt # 0 THEN [kind |-> "num", val |-> yaw \div dt]
  ELSE IF yaw = 0 THEN [kind |-> "nan", val |-> 0]
  ELSE [kind |-> "inf", val |-> yaw]

Num(n) == [kind |-> "num", val |-> n]

----------------------------------------------------------------------------
(* Inputs *)

\* Poses of a path message: <<position.x, position.y, rotation about z that
\* the orientation quaternion encodes>>.
PathCatalogue ==
  { <<>>,
    <<(<<10, 0, 0>>)>>,
    <<(<<0, 0, 0>>), (<<2, 0, 270>>)>>,
    <<(<<2, 0, 270>>), (<<0, 0, 0>>)>>,
    <<(<<0, 0, 0>>), (<<2, 0, 270>>), (<<0, 0, 0>>)>>,
    <<(<<2, 0, 270>>), (<<0, 0, 0>>), (<<2, 0, 270>>), (<<0, 0, 0>>)>> }

PathMsgs == {msg \in PathCatalogue : Len(msg) <= MaxPathLen}

\* Twist messages: <<linear.x, angular.z>>
TwistMsgs == {<<1, 0>>, <<0, 270>>}

\* The skeleton animations an actor may carry
AnimSets == {{WALKING_ANIMATION, STANDING_ANIMATION}, {STANDING_ANIMATION}, {WALKING_ANIMATION}}

DefaultRotations == {0, 90}

\* The actor's world pose at Load
InitPose == <<0, 0, 0>>

----------------------------------------------------------------------------
(* The pure parts of the handlers and of OnUpdate *)

\* PathCallback's conversion of one pose: x, y and the yaw that getRPY
\* extracts from the orientation quaternion.
Waypoint(p) == <<p[1], p[2], NormalizeDeg(p[3])>>

\* The waypoint list PathCallback builds from a message's poses.
Waypoints(msg) == [i \in 1..Len(msg) |-> Waypoint(msg[i])]

\* VelCallback's vel_cmd: X from linear.x, Z from angular.z
VelCmd(msg) == <<msg[1], msg[2]>>

\* The held velocity OnUpdate takes from a sample: the linear speed, and the
\* angular rate read back from Quaterniond(0, 0, z).Euler().Z().
HeldVelocity(cmd) == <<cmd[1], NormalizeDeg(cmd[2])>>

\* idx_ < target_poses_.size() - 1, in size_t arithmetic: 0 - 1 wraps to the
\* largest value, which every index is below.
IdxBelowLast(idx, n) == IF n = 0 THEN TRUE ELSE idx < n - 1

\* ChooseNewTarget: idx_++, then target_pose_ = target_poses_.at(idx_).
\* at() throws std::out_of_range when the index is not below the size.
AtInRange(poses, idx) == idx < Len(poses)

ChooseNewTarget(poses, idx) ==
  [idx |-> idx + 1, target |-> poses[idx + 2]]

\* A hold-position branch that leaves the displacement pos as computed.
HoldKeepsDisplacement(p, target) ==
  [poses |-> <<>>, target |-> <<p[1], p[2], target[3]>>, idx |-> 0,
   pos |-> Displacement(target, p), type |-> WALKING_ANIMATION, branch |-> "hold"]

\* A hold-position branch that leaves the current target where it was.
HoldKeepsTarget(p, target) ==
  [poses |-> <<>>, target |-> target, idx |-> 0,
   pos |-> <<0, 0>>, type |-> WALKING_ANIMATION, branch |-> "hold"]

\* A hold-position branch that leaves the waypoint list as it found it.
HoldKeepsWaypoints(p, target) ==
  [poses |-> target_poses_, target |-> <<p[1], p[2], target[3]>>, idx |-> 0,
   pos |-> <<0, 0>>, type |-> WALKING_ANIMATION, branch |-> "hold"]

\* The hold-position branch of OnUpdate.
HoldPosition(p, target) ==
  [poses |-> <<>>, target |-> <<p[1], p[2], target[3]>>, idx |-> 0,
   pos |-> <<0, 0>>, type |-> WALKING_ANIMATION, branch |-> "hold"]

\* The target selection of a Path-Following tick: the waypoint list, index
\* and target it leaves, the displacement pos, and the trajectory type.
PathTarget(ab, poses, idx, target, p) ==
  LET pos == Displacement(target, p)
      distance == Length(pos)
  IN IF ab \/ poses = <<>>
     THEN HoldPosition(p, target)
     ELSE IF BelowTolerance(distance)
     THEN IF IdxBelowLast(idx, Len(poses))
          THEN LET c == ChooseNewTarget(poses, idx)
               IN [poses |-> poses, target |-> c.target, idx |-> c.idx,
                   pos |-> Displacement(c.target, p),
                   type |-> WALKING_ANIMATION, branch |-> "next"]
          ELSE [poses |-> poses, target |-> target, idx |-> idx,
                pos |-> <<0, 0>>,
                type |-> STANDING_ANIMATION, branch |-> "reached"]
     ELSE [poses |-> poses, target |-> target, idx |-> idx, pos |-> pos,
           type |-> WALKING_ANIMATION, branch |-> "track"]

\* The angular error of a tick towards the unit vector dir.
AngularError(dir, rpyZ, rotation) ==
  IF Length(dir) # 0
  THEN NormalizeDeg(Atan2Deg(dir) + rotation - rpyZ)
  ELSE 0

\* A rotation direction that counts a zero angular error as negative.
RotSignZeroNegative(yaw) == IF yaw <= 0 THEN -1 ELSE 1

\* int rot_sign = 1; if (yaw < 0) rot_sign = -1;
RotSign(yaw) == IF yaw < 0 THEN -1 ELSE 1

\* A turn-then-move step without the gate: it translates while it turns.
SteerMovesWhileTurning(pos, rpyZ, rotation, dt) ==
  LET dir == Normalized(pos)
      yaw == AngularError(dir, rpyZ, rotation)
      rot_sign == RotSign(yaw)
  IN [dx |-> dir[1] * lin_velocity_ * dt,
      dy |-> dir[2] * lin_velocity_ * dt,
      yaw |-> IF Abs(yaw) > ang_tolerance_
              THEN rpyZ + rot_sign * ang_velocity_ * dt
              ELSE rpyZ + yaw,
      lin |-> <<dir[1] * lin_velocity_, dir[2] * lin_velocity_>>,
      ang |-> IF Abs(yaw) > ang_tolerance_
              THEN Num(rot_sign * ang_velocity_)
              ELSE AngularOverDt(yaw, dt),
      rotating |-> Abs(yaw) > ang_tolerance_,
      err |-> yaw, rot_sign |-> rot_sign]

\* The turn-then-move step of a Path-Following tick: the position increment,
\* the new yaw and the twist.
Steer(pos, rpyZ, rotation, dt) ==
  LET dir == Normalized(pos)
      yaw == AngularError(dir, rpyZ, rotation)
      rot_sign == RotSign(yaw)
  IN IF Abs(yaw) > ang_tolerance_
     THEN [dx |-> 0, dy |-> 0,
           yaw |-> rpyZ + rot_sign * ang_velocity_ * dt,
           lin |-> <<0, 0>>, ang |-> Num(rot_sign * ang_velocity_),
           rotating |-> TRUE, err |-> yaw, rot_sign |-> rot_sign]
     ELSE [dx |-> dir[1] * lin_velocity_ * dt,
           dy |-> dir[2] * lin_velocity_ * dt,
           yaw |-> rpyZ + yaw,
           lin |-> <<dir[1] * lin_velocity_, dir[2] * lin_velocity_>>,
           ang |-> AngularOverDt(yaw, dt),
           rotating |-> FALSE, err |-> yaw, rot_sign |-> rot_sign]

\* An integration step that advances by the velocity, whatever dt is.
IntegrateUnitStep(vel, rpyZ, rotation, dt) ==
  [dx |-> vel[1] * CosDeg(rpyZ - rotation),
   dy |-> vel[1] * SinDeg(rpyZ - rotation),
   yaw |-> rpyZ + vel[2] * dt,
   lin |-> <<vel[1] * CosDeg(rpyZ - rotation), vel[1] * SinDeg(rpyZ - rotation)>>,
   ang |-> Num(vel[2]),
   rotating |-> FALSE]

\* The integration step of a Velocity-Following tick with held velocity vel.
Integrate(vel, rpyZ, rotation, dt) ==
  [dx |-> vel[1] * CosDeg(rpyZ - rotation) * dt,
   dy |-> vel[1] * SinDeg(rpyZ - rotation) * dt,
   yaw |-> rpyZ + vel[2] * dt,
   lin |-> <<vel[1] * CosDeg(rpyZ - rotation), vel[1] * SinDeg(rpyZ - rotation)>>,
   ang |-> Num(vel[2]),
   rotating |-> FALSE]

\* The pose OnUpdate writes back; the yaw is read back normalised by Euler().
NewPose(p, mv) == <<p[1] + mv.dx, p[2] + mv.dy, NormalizeDeg(mv.yaw)>>

\* The odometry record of a tick that read pose p: the position and yaw are
\* taken from p before the motion is computed.
Odometry(p, rotation, mv) ==
  [published |-> TRUE, x |-> p[1], y |-> p[2],
   yaw |-> NormalizeDeg(p[3] - rotation), lin |-> mv.lin, ang |-> mv.ang]

\* A clock advance by the distance travelled alone, without the factor.
ScriptAdvanceUnscaled(p, q) == Length(Displacement(q, p))

\* distanceTraveled * animation_factor_
ScriptAdvance(p, q) == Length(Displacement(q, p)) * animation_factor_

----------------------------------------------------------------------------
(* Load and Reset: the state after construction *)

Queues == {"vel", "path", "abort"}

NoOdom ==
  [published |-> FALSE, x |-> 0, y |-> 0, yaw |-> 0, lin |-> <<0, 0>>, ang |-> Num(0)]

NoLocals == [dt |-> 0, p |-> InitPose, pos |-> <<0, 0>>, distance |-> 0, branch |-> "none"]

IdlePathWorker == [pc |-> "idle", msg |-> <<>>, i |-> 0, pre |-> <<>>]

IdleVelWorker == [pc |-> "idle", cmd |-> <<0, 0>>]

\* Reset: idx_ = 0, the waypoint list holds the current pose, the target is
\* that pose, and the custom trajectory is created only when both clips exist.
Reset ==
  /\ idx_ = 0
  /\ target_poses_ = <<pose>>
  /\ target_pose_ = target_poses_[idx_ + 1]
  /\ trajectoryInfo_ =
       IF WALKING_ANIMATION \notin skelAnims THEN "null"
       ELSE IF STANDING_ANIMATION \notin skelAnims THEN "null"
       ELSE STANDING_ANIMATION

\* Load: the parameters, Reset, the node, the subscriptions and the workers.
Load ==
  /\ follow_mode_ \in {"velocity", "path"}
  /\ default_rotation_ \in DefaultRotations
  /\ abort_ = FALSE
  /\ skelAnims \in AnimSets
  /\ pose = InitPose
  /\ Reset
  /\ node_ok = TRUE
  /\ queue_enabled = [q \in Queues |-> TRUE]
  /\ queue_pending = [q \in Queues |-> <<>>]
  /\ worker_pc = [q \in Queues |-> "test"]

Init ==
  /\ Load
  /\ script_time = 0
  /\ odom = NoOdom
  /\ cmd_queue_ = <<>>
  /\ target_vel_ = <<0, 0>>
  /\ fault = "none"
  /\ last_op = <<"load">>
  /\ scenario_ticks = -1
  /\ pushed = <<>>
  /\ applied = <<>>
  /\ abandoned = <<>>
  /\ tick_pc = "idle"
  /\ t = NoLocals
  /\ path_w = IdlePathWorker
  /\ vel_w = IdleVelWorker
  /\ dtor_pc = [step |-> "alive", q |-> "none"]

----------------------------------------------------------------------------
(* Spec: every handler and every tick as one step *)

\* The straight-line scenario: the path [(10, 0, 0)] received by an actor at
\* (0, 0) heading 0 in Path-Following, with no rotation offset.
ScenarioPath == <<(<<10, 0, 0>>)>>

ScenarioStarts(msg) ==
  /\ msg = ScenarioPath
  /\ pose = <<0, 0, 0>>
  /\ follow_mode_ = "path"
  /\ default_rotation_ = 0

\* The count after a tick of length dt that did or did not rotate in place.
ScenarioNext(dt, rotating) ==
  IF scenario_ticks >= 0 /\ scenario_ticks < ScenarioTicks /\ dt = 1 /\ ~rotating
  THEN scenario_ticks + 1
  ELSE -1

\* The exploration's cap on the pushes of a run.
PushCap == IF follow_mode_ = "velocity" THEN MaxCmds ELSE MaxIdleCmds

VelCallback(msg) ==
  /\ fault = "none"
  /\ Len(pushed) < PushCap
  /\ cmd_queue_' = Append(cmd_queue_, VelCmd(msg))
  /\ pushed' = Append(pushed, VelCmd(msg))
  /\ last_op' = <<"vel">>
  /\ scenario_ticks' = -1
  /\ UNCHANGED <<cfgVars, hostVars, targetVars, target_vel_, fault, applied, abandoned,
                 raceVars>>

PathCallback(msg) ==
  /\ fault = "none"
  /\ target_poses_' = Waypoints(msg)
  /\ idx_' = 0
  /\ abort_' = FALSE
  /\ abandoned' = <<>>
  /\ last_op' = <<"path", msg>>
  /\ scenario_ticks' = IF ScenarioStarts(msg) THEN 0 ELSE -1
  /\ UNCHANGED <<cfgVars, hostVars, target_pose_, velVars, fault, pushed, applied,
                 raceVars>>

AbortCallback(data) ==
  /\ fault = "none"
  /\ abort_' = data
  /\ last_op' = <<"abort">>
  /\ scenario_ticks' = -1
  /\ UNCHANGED <<cfgVars, hostVars, target_poses_, idx_, target_pose_, velVars,
                 fault, pushed, applied, abandoned, raceVars>>

\* The end of OnUpdate: publish, SetWorldPose, SetScriptTime.  The step is
\* taken only within the exploration's travel bound.
Finish(p, mv) ==
  /\ script_time + ScriptAdvance(p, NewPose(p, mv)) <= MaxTravel * animation_factor_
  /\ odom' = Odometry(p, default_rotation_, mv)
  /\ pose' = NewPose(p, mv)
  /\ script_time' = script_time + ScriptAdvance(p, NewPose(p, mv))

\* A tick of an actor without custom trajectory: trajectoryInfo_->type is a
\* write through a null pointer.
OnUpdateNull ==
  /\ fault = "none"
  /\ follow_mode_ \in {"path", "velocity"}
  /\ trajectoryInfo_ = "null"
  /\ fault' = "null_deref"
  /\ last_op' = <<"tick", "fault", 0, 0, 0, 0>>
  /\ scenario_ticks' = -1
  /\ UNCHANGED <<cfgVars, hostVars, targetVars, velVars, pushed, applied, abandoned,
                 raceVars, shutVars>>

\* A Path-Following tick that also consumes a pending velocity sample.
OnUpdatePathDrainsQueue(dt) ==
  /\ fault = "none"
  /\ follow_mode_ = "path"
  /\ trajectoryInfo_ # "null"
  /\ LET sel == PathTarget(abort_, target_poses_, idx_, target_pose_, pose)
         mv == Steer(sel.pos, pose[3], default_rotation_, dt)
     IN /\ trajectoryInfo_' = sel.type
        /\ target_poses_' = sel.poses
        /\ target_pose_' = sel.target
        /\ idx_' = sel.idx
        /\ abandoned' = IF sel.branch = "hold" /\ target_poses_ # <<>>
                        THEN target_poses_ ELSE abandoned
        /\ Finish(pose, mv)
        /\ last_op' = <<"tick", sel.branch, Length(Displacement(target_pose_, pose)), dt,
                       mv.err, mv.rot_sign>>
        /\ scenario_ticks' = ScenarioNext(dt, mv.rotating)
  /\ cmd_queue_' = IF cmd_queue_ # <<>> THEN Tail(cmd_queue_) ELSE cmd_queue_
  /\ UNCHANGED <<cfgVars, abort_, target_vel_, fault, pushed, applied, raceVars, shutVars>>

OnUpdatePath(dt) ==
  /\ fault = "none"
  /\ follow_mode_ = "path"
  /\ trajectoryInfo_ # "null"
  /\ LET sel == PathTarget(abort_, target_poses_, idx_, target_pose_, pose)
         mv == Steer(sel.pos, pose[3], default_rotation_, dt)
     IN /\ trajectoryInfo_' = sel.type
        /\ target_poses_' = sel.poses
        /\ target_pose_' = sel.target
        /\ idx_' = sel.idx
        /\ abandoned' = IF sel.branch = "hold" /\ target_poses_ # <<>>
                        THEN target_poses_ ELSE abandoned
        /\ Finish(pose, mv)
        /\ last_op' = <<"tick", sel.branch, Length(Displacement(target_pose_, pose)), dt,
                       mv.err, mv.rot_sign>>
        /\ scenario_ticks' = ScenarioNext(dt, mv.rotating)
  /\ UNCHANGED <<cfgVars, abort_, velVars, fault, pushed, applied, raceVars, shutVars>>

OnUpdateVelocity(dt) ==
  /\ fault = "none"
  /\ follow_mode_ = "velocity"
  /\ trajectoryInfo_ # "null"
  /\ LET pop == cmd_queue_ # <<>>
         vel == IF pop THEN HeldVelocity(Head(cmd_queue_)) ELSE target_vel_
         mv == Integrate(vel, pose[3], default_rotation_, dt)
     IN /\ trajectoryInfo_' = WALKING_ANIMATION
        /\ target_vel_' = vel
        /\ cmd_queue_' = IF pop THEN Tail(cmd_queue_) ELSE cmd_queue_
        /\ applied' = IF pop THEN Append(applied, Head(cmd_queue_)) ELSE applied
        /\ Finish(pose, mv)
        /\ last_op' = <<"tick", IF pop THEN "pop" ELSE "keep", 0, dt, 0, 0>>
        /\ scenario_ticks' = -1
  /\ UNCHANGED <<cfgVars, targetVars, fault, pushed, abandoned, raceVars, shutVars>>

OnUpdate(dt) == OnUpdateNull \/ OnUpdatePath(dt) \/ OnUpdateVelocity(dt)

\* In Spec and RaceSpec the worker loops and the callback queues stay as Load
\* left them: a handler runs whenever a message is drawn.
Next ==
  \/ \E msg \in TwistMsgs : VelCallback(msg) /\ UNCHANGED shutVars
  \/ \E msg \in PathMsgs : PathCallback(msg) /\ UNCHANGED shutVars
  \/ \E data \in BOOLEAN : AbortCallback(data) /\ UNCHANGED shutVars
  \/ \E dt \in Dts : OnUpdate(dt)

Spec == Init /\ [][Next]_vars

----------------------------------------------------------------------------
(* RaceSpec: the tick thread and the workers, statement by statement.       *)
(* OnUpdate runs on the simulation thread, PathCallback, AbortCallback and *)
(* VelCallback on their own worker threads, and the source takes no lock:  *)
(* the steps below interleave freely.                                       *)

\* A slot of cmd_queue_ that is counted in the queue but not yet written.
Uninit == <<>>

\* What a read of a slot that was never written may return.
Indeterminate == {VelCmd(msg) : msg \in TwistMsgs} \cup {<<0, 0>>}

\* RaceSpec explores each follow mode with the commands that mode consumes:
\* path and abort commands in Path-Following, velocity samples in
\* Velocity-Following.
RacePathMsgs == {msg \in PathMsgs : msg = <<>> \/ msg[1][1] # 10}

RaceDts == {1, 2}

RaceInit ==
  /\ Init
  /\ skelAnims = {WALKING_ANIMATION, STANDING_ANIMATION}
  /\ default_rotation_ = 0

\* OnUpdate up to the hold test: the pose is read, the trajectory type is
\* set to walking and, in Path-Following, pos and distance are computed from
\* target_pose_.
TickBegin(dt) ==
  /\ fault = "none"
  /\ tick_pc = "idle"
  /\ trajectoryInfo_' = WALKING_ANIMATION
  /\ t' = [dt |-> dt, p |-> pose,
           pos |-> Displacement(target_pose_, pose),
           distance |-> Length(Displacement(target_pose_, pose)),
           branch |-> "none"]
  /\ tick_pc' = IF follow_mode_ = "path" THEN "test" ELSE "vel_empty"
  /\ UNCHANGED <<cfgVars, pose, script_time, odom, targetVars, velVars, fault,
                 obsVars, path_w, vel_w, shutVars>>

\* if (abort_ || target_poses_.empty()) ... else if (distance < lin_tolerance_)
TickTest ==
  /\ fault = "none"
  /\ tick_pc = "test"
  /\ IF abort_ \/ target_poses_ = <<>>
     THEN tick_pc' = "hold" /\ t' = t
     ELSE IF BelowTolerance(t.distance)
     THEN tick_pc' = "last" /\ t' = t
     ELSE tick_pc' = "steer" /\ t' = [t EXCEPT !.branch = "track"]
  /\ UNCHANGED <<cfgVars, hostVars, targetVars, velVars, fault, obsVars,
                 path_w, vel_w, shutVars>>

\* The body of the hold-position branch.
TickHold ==
  /\ fault = "none"
  /\ tick_pc = "hold"
  /\ LET h == HoldPosition(t.p, target_pose_)
     IN /\ target_poses_' = h.poses
        /\ target_pose_' = h.target
        /\ idx_' = h.idx
        /\ t' = [t EXCEPT !.pos = h.pos, !.branch = h.branch]
  /\ abandoned' = IF target_poses_ # <<>> THEN target_poses_ ELSE abandoned
  /\ tick_pc' = "steer"
  /\ UNCHANGED <<cfgVars, hostVars, abort_, velVars, fault, last_op,
                 scenario_ticks, pushed, applied, path_w, vel_w, shutVars>>

\* if (idx_ < target_poses_.size() - 1) ... else all targets accomplished
TickLast ==
  /\ fault = "none"
  /\ tick_pc = "last"
  /\ IF IdxBelowLast(idx_, Len(target_poses_))
     THEN /\ tick_pc' = "incr"
          /\ UNCHANGED <<t, trajectoryInfo_>>
     ELSE /\ tick_pc' = "steer"
          /\ t' = [t EXCEPT !.pos = <<0, 0>>, !.branch = "reached"]
          /\ trajectoryInfo_' = STANDING_ANIMATION
  /\ UNCHANGED <<cfgVars, pose, script_time, odom, targetVars, velVars, fault,
                 obsVars, path_w, vel_w, shutVars>>

\* ChooseNewTarget: idx_++
TickIncr ==
  /\ fault = "none"
  /\ tick_pc = "incr"
  /\ idx_' = idx_ + 1
  /\ tick_pc' = "at"
  /\ UNCHANGED <<cfgVars, hostVars, target_poses_, target_pose_, abort_, velVars,
                 fault, obsVars, t, path_w, vel_w, shutVars>>

\* ChooseNewTarget: target_pose_ = target_poses_.at(idx_), which throws when
\* idx_ is not below the size; then pos is recomputed from the new target.
TickAt ==
  /\ fault = "none"
  /\ tick_pc = "at"
  /\ IF AtInRange(target_poses_, idx_)
     THEN /\ target_pose_' = target_poses_[idx_ + 1]
          /\ t' = [t EXCEPT !.pos = Displacement(target_poses_[idx_ + 1], t.p),
                            !.branch = "next"]
          /\ tick_pc' = "steer"
          /\ UNCHANGED fault
     ELSE /\ fault' = "out_of_range"
          /\ UNCHANGED <<target_pose_, t, tick_pc>>
  /\ UNCHANGED <<cfgVars, hostVars, target_poses_, idx_, abort_, velVars,
                 obsVars, path_w, vel_w, shutVars>>

\* The rest of a Path-Following tick: normalise, turn or move, publish,
\* write the pose back and advance the script time.
TickSteer ==
  /\ fault = "none"
  /\ tick_pc = "steer"
  /\ LET mv == Steer(t.pos, t.p[3], default_rotation_, t.dt)
     IN /\ Finish(t.p, mv)
        /\ last_op' = <<"tick", t.branch, t.distance, t.dt, mv.err, mv.rot_sign>>
  /\ scenario_ticks' = -1
  /\ tick_pc' = "idle"
  /\ UNCHANGED <<cfgVars, trajectoryInfo_, targetVars, velVars, fault, pushed,
                 applied, abandoned, t, path_w, vel_w, shutVars>>

\* if (!cmd_queue_.empty())
TickVelEmpty ==
  /\ fault = "none"
  /\ tick_pc = "vel_empty"
  /\ IF cmd_queue_ # <<>>
     THEN tick_pc' = "vel_front" /\ t' = [t EXCEPT !.branch = "pop"]
     ELSE tick_pc' = "vel_move" /\ t' = [t EXCEPT !.branch = "keep"]
  /\ UNCHANGED <<cfgVars, hostVars, targetVars, velVars, fault, obsVars,
                 path_w, vel_w, shutVars>>

\* target_vel_ is taken from cmd_queue_.front(); a slot that the pushing
\* thread has not written yet reads as an indeterminate sample.
TickVelFront ==
  /\ fault = "none"
  /\ tick_pc = "vel_front"
  /\ \E cmd \in (IF Head(cmd_queue_) = Uninit THEN Indeterminate ELSE {Head(cmd_queue_)}) :
       /\ target_vel_' = HeldVelocity(cmd)
       /\ applied' = Append(applied, cmd)
  /\ tick_pc' = "vel_pop"
  /\ UNCHANGED <<cfgVars, hostVars, targetVars, cmd_queue_, fault, last_op,
                 scenario_ticks, pushed, abandoned, t, path_w, vel_w, shutVars>>

\* cmd_queue_.pop()
TickVelPop ==
  /\ fault = "none"
  /\ tick_pc = "vel_pop"
  /\ cmd_queue_' = Tail(cmd_queue_)
  /\ tick_pc' = "vel_move"
  /\ UNCHANGED <<cfgVars, hostVars, targetVars, target_vel_, fault, obsVars,
                 t, path_w, vel_w, shutVars>>

\* The rest of a Velocity-Following tick: integrate, publish, write back.
TickVelMove ==
  /\ fault = "none"
  /\ tick_pc = "vel_move"
  /\ Finish(t.p, Integrate(target_vel_, t.p[3], default_rotation_, t.dt))
  /\ last_op' = <<"tick", t.branch, 0, t.dt, 0, 0>>
  /\ scenario_ticks' = -1
  /\ tick_pc' = "idle"
  /\ UNCHANGED <<cfgVars, trajectoryInfo_, targetVars, velVars, fault, pushed,
                 applied, abandoned, t, path_w, vel_w, shutVars>>

\* PathCallback is entered with msg: target_poses_.clear()
PathClear(msg) ==
  /\ fault = "none"
  /\ follow_mode_ = "path"
  /\ path_w.pc = "idle"
  /\ target_poses_' = <<>>
  /\ path_w' = [pc |-> "idx", msg |-> msg, i |-> 0, pre |-> <<target_poses_, idx_>>]
  /\ abandoned' = <<>>
  /\ UNCHANGED <<cfgVars, hostVars, idx_, target_pose_, abort_, velVars, fault,
                 last_op, scenario_ticks, pushed, applied, tick_pc, t, vel_w,
                 shutVars>>

\* idx_ = 0
PathIdx ==
  /\ fault = "none"
  /\ path_w.pc = "idx"
  /\ idx_' = 0
  /\ path_w' = [path_w EXCEPT !.pc = "abort"]
  /\ UNCHANGED <<cfgVars, hostVars, target_poses_, target_pose_, abort_, velVars,
                 fault, obsVars, tick_pc, t, vel_w, shutVars>>

\* abort_ = false
PathAbort ==
  /\ fault = "none"
  /\ path_w.pc = "abort"
  /\ abort_' = FALSE
  /\ path_w' = [path_w EXCEPT !.pc = "push"]
  /\ UNCHANGED <<cfgVars, hostVars, target_poses_, idx_, target_pose_, velVars,
                 fault, obsVars, tick_pc, t, vel_w, shutVars>>

\* One turn of the loop over the poses: push_back of the next waypoint, or
\* the return of the handler when none is left.
PathPush ==
  /\ fault = "none"
  /\ path_w.pc = "push"
  /\ IF path_w.i < Len(path_w.msg)
     THEN /\ target_poses_' = Append(target_poses_, Waypoint(path_w.msg[path_w.i + 1]))
          /\ path_w' = [path_w EXCEPT !.i = path_w.i + 1]
          /\ UNCHANGED <<last_op, scenario_ticks>>
     ELSE /\ path_w' = IdlePathWorker
          /\ last_op' = <<"path", path_w.msg>>
          /\ scenario_ticks' = -1
          /\ UNCHANGED target_poses_
  /\ UNCHANGED <<cfgVars, hostVars, idx_, target_pose_, abort_, velVars, fault,
                 pushed, applied, abandoned, tick_pc, t, vel_w, shutVars>>

\* VelCallback's push with its two stores seen out of order by the tick
\* thread: the queue already counts the new slot, the sample is not in it yet.
VelPublish(msg) ==
  /\ fault = "none"
  /\ follow_mode_ = "velocity"
  /\ vel_w.pc = "idle"
  /\ Len(pushed) < PushCap
  /\ cmd_queue_' = Append(cmd_queue_, Uninit)
  /\ pushed' = Append(pushed, VelCmd(msg))
  /\ vel_w' = [pc |-> "store", cmd |-> VelCmd(msg)]
  /\ UNCHANGED <<cfgVars, hostVars, targetVars, target_vel_, fault, last_op,
                 scenario_ticks, applied, abandoned, tick_pc, t, path_w, shutVars>>

\* The sample reaches its slot, unless the tick has popped the slot already.
VelStore ==
  /\ fault = "none"
  /\ vel_w.pc = "store"
  /\ cmd_queue_' = [i \in 1..Len(cmd_queue_) |->
                      IF cmd_queue_[i] = Uninit THEN vel_w.cmd ELSE cmd_queue_[i]]
  /\ vel_w' = IdleVelWorker
  /\ last_op' = <<"vel">>
  /\ scenario_ticks' = -1
  /\ UNCHANGED <<cfgVars, hostVars, targetVars, target_vel_, fault, pushed,
                 applied, abandoned, tick_pc, t, path_w, shutVars>>

\* VelCallback with its stores in program order.
VelPush(msg) ==
  /\ follow_mode_ = "velocity"
  /\ vel_w.pc = "idle"
  /\ VelCallback(msg)
  /\ UNCHANGED shutVars

RaceAbort(data) ==
  /\ follow_mode_ = "path"
  /\ AbortCallback(data)
  /\ UNCHANGED shutVars

RaceNext ==
  \/ \E dt \in RaceDts : TickBegin(dt)
  \/ TickTest
  \/ TickHold
  \/ TickLast
  \/ TickIncr
  \/ TickAt
  \/ TickSteer
  \/ TickVelEmpty
  \/ TickVelFront
  \/ TickVelPop
  \/ TickVelMove
  \/ \E msg \in RacePathMsgs : PathClear(msg)
  \/ PathIdx
  \/ PathAbort
  \/ PathPush
  \/ \E data \in BOOLEAN : RaceAbort(data)
  \/ \E msg \in TwistMsgs : VelPush(msg)
  \/ \E msg \in TwistMsgs : VelPublish(msg)
  \/ VelStore

RaceSpec == RaceInit /\ [][RaceNext]_vars

----------------------------------------------------------------------------
(* ShutdownSpec: the callback queues, the three worker loops and the       *)
(* destructor.                                                              *)

\* The messages the transport delivers in ShutdownSpec.
Deliveries(q) ==
  CASE q = "vel" -> TwistMsgs
    [] q = "path" -> {<<>>, ScenarioPath}
    [] q = "abort" -> BOOLEAN

\* The handler a queue's subscription is bound to.
Handler(q, msg) ==
  CASE q = "vel" -> VelCallback(msg)
    [] q = "path" -> PathCallback(msg)
    [] q = "abort" -> AbortCallback(msg)

\* The transport adds a callback for msg to queue q.  The subscriptions are
\* created with queue size 1, so a pending message is replaced; a disabled
\* queue and a node that is shut down accept nothing.
Deliver(q, msg) ==
  /\ node_ok
  /\ queue_enabled[q]
  /\ q = "vel" => Len(pushed) < PushCap
  /\ queue_pending' = [queue_pending EXCEPT ![q] = <<msg>>]
  /\ UNCHANGED <<cfgVars, hostVars, targetVars, velVars, fault, obsVars, raceVars,
                 dtor_pc, worker_pc, queue_enabled, node_ok>>

\* while (this->ros_node_->ok())
WorkerTest(q) ==
  /\ worker_pc[q] = "test"
  /\ worker_pc' = [worker_pc EXCEPT ![q] = IF node_ok THEN "call" ELSE "exited"]
  /\ UNCHANGED <<cfgVars, hostVars, targetVars, velVars, fault, obsVars, raceVars,
                 dtor_pc, queue_enabled, queue_pending, node_ok>>

\* callAvailable(timeout): a disabled queue returns at once, an empty queue
\* returns after the timeout, otherwise the pending callback is invoked.
WorkerCall(q) ==
  /\ worker_pc[q] = "call"
  /\ worker_pc' = [worker_pc EXCEPT ![q] = "test"]
  /\ IF queue_enabled[q] /\ queue_pending[q] # <<>>
     THEN /\ Handler(q, queue_pending[q][1])
          /\ queue_pending' = [queue_pending EXCEPT ![q] = <<>>]
     ELSE UNCHANGED <<cfgVars, hostVars, targetVars, velVars, fault, obsVars,
                      raceVars, queue_pending>>
  /\ UNCHANGED <<dtor_pc, queue_enabled, node_ok>>

\* The plugin is destroyed.
DtorBegin ==
  /\ dtor_pc.step = "alive"
  /\ dtor_pc' = [step |-> "clear", q |-> "vel"]
  /\ UNCHANGED <<cfgVars, hostVars, targetVars, velVars, fault, obsVars, raceVars,
                 worker_pc, queue_enabled, queue_pending, node_ok>>

\* queue.clear()
DtorClear(q) ==
  /\ dtor_pc = [step |-> "clear", q |-> q]
  /\ queue_pending' = [queue_pending EXCEPT ![q] = <<>>]
  /\ dtor_pc' = [step |-> "disable", q |-> q]
  /\ UNCHANGED <<cfgVars, hostVars, targetVars, velVars, fault, obsVars, raceVars,
                 worker_pc, queue_enabled, node_ok>>

\* queue.disable()
DtorDisable(q) ==
  /\ dtor_pc = [step |-> "disable", q |-> q]
  /\ queue_enabled' = [queue_enabled EXCEPT ![q] = FALSE]
  /\ dtor_pc' = [step |-> "join", q |-> q]
  /\ UNCHANGED <<cfgVars, hostVars, targetVars, velVars, fault, obsVars, raceVars,
                 worker_pc, queue_pending, node_ok>>

\* The statement after the join of queue q's thread.
AfterJoin(q) ==
  CASE q = "vel" -> [step |-> "clear", q |-> "path"]
    [] q = "path" -> [step |-> "clear", q |-> "abort"]
    [] q = "abort" -> [step |-> "shutdown", q |-> "none"]

\* thread.join(): returns once the worker's loop has ended.
DtorJoin(q) ==
  /\ dtor_pc = [step |-> "join", q |-> q]
  /\ worker_pc[q] = "exited"
  /\ dtor_pc' = AfterJoin(q)
  /\ UNCHANGED <<cfgVars, hostVars, targetVars, velVars, fault, obsVars, raceVars,
                 worker_pc, queue_enabled, queue_pending, node_ok>>

\* ros_node_->shutdown(); delete ros_node_
DtorShutdown ==
  /\ dtor_pc.step = "shutdown"
  /\ node_ok' = FALSE
  /\ dtor_pc' = [step |-> "done", q |-> "none"]
  /\ UNCHANGED <<cfgVars, hostVars, targetVars, velVars, fault, obsVars, raceVars,
                 worker_pc, queue_enabled, queue_pending>>

\* The process-wide ros::shutdown(), which is not this plugin's doing: after
\* it ros_node_->ok() is false.
RosShutdown ==
  /\ node_ok
  /\ node_ok' = FALSE
  /\ UNCHANGED <<cfgVars, hostVars, targetVars, velVars, fault, obsVars, raceVars,
                 dtor_pc, worker_pc, queue_enabled, queue_pending>>

Destructor ==
  \/ \E q \in Queues : DtorClear(q)
  \/ \E q \in Queues : DtorDisable(q)
  \/ \E q \in Queues : DtorJoin(q)
  \/ DtorShutdown

ShutdownNext ==
  \/ \E q \in Queues : \E msg \in Deliveries(q) : Deliver(q, msg)
  \/ \E q \in Queues : WorkerTest(q)
  \/ \E q \in Queues : WorkerCall(q)
  \/ DtorBegin
  \/ Destructor
  \/ RosShutdown

ShutdownInit ==
  /\ Init
  /\ follow_mode_ = "path"
  /\ default_rotation_ = 0
  /\ skelAnims = {WALKING_ANIMATION, STANDING_ANIMATION}

\* The threads are scheduled: the destructor's thread and each worker take
\* their next step when they can.  Nothing obliges the transport to deliver,
\* the plugin to be destroyed or the process to shut ROS down.
ShutdownSpec ==
  /\ ShutdownInit
  /\ [][ShutdownNext]_vars
  /\ WF_vars(Destructor)
  /\ \A q \in Queues : WF_vars(WorkerTest(q) \/ WorkerCall(q))

----------------------------------------------------------------------------
(* Properties of the handlers and of the tick, under Spec *)

IsTick(op) == op[1] = "tick"

\* C1: after PathCallback has processed a command with a non-empty waypoint
\* list, the waypoint list is the command's list in order, the target index
\* is 0, the abort flag is false and the current target is the first
\* waypoint of that list.
C1_PathHandlerResetsTarget ==
  (last_op[1] = "path" /\ last_op[2] # <<>>) =>
    /\ target_poses_ = Waypoints(last_op[2])
    /\ idx_ = 0
    /\ ~abort_
    /\ target_pose_ = target_poses_[idx_ + 1]

\* C2: the path [(10, 0, 0)] received at (0, 0) heading 0, followed by ten
\* ticks of one second without rotation in place and by no other command,
\* leaves the actor at (10, 0) with the clip "standing".
C2_ScenarioReachesWaypoint ==
  scenario_ticks = ScenarioTicks =>
    /\ pose[1] = 10
    /\ pose[2] = 0
    /\ trajectoryInfo_ = STANDING_ANIMATION

\* C3: in Path-Following, a tick taken while the abort flag is set leaves
\* the actor's position (x, y) unchanged and leaves the flag set, so any
\* number of ticks after abort = true, of any dt, ends at the position held
\* before the first of them.
C3_AbortHoldsPosition ==
  [][(follow_mode_ = "path" /\ abort_ /\ IsTick(last_op'))
       => (pose'[1] = pose[1] /\ pose'[2] = pose[2] /\ abort_')]_vars

\* C3 witness: a tick held position under abort although the actor was away
\* from its current target and had left its initial position.
C3_Witness ==
  /\ follow_mode_ = "path"
  /\ abort_
  /\ last_op[1] = "tick" /\ last_op[2] = "hold" /\ last_op[3] > 0
  /\ pose[1] # InitPose[1]

\* C4: a Path-Following tick that took the hold-position branch ends with
\* the clip "standing".
C4_HoldSelectsStanding ==
  (last_op[1] = "tick" /\ last_op[2] = "hold") =>
    trajectoryInfo_ = STANDING_ANIMATION

\* C9: when a required clip is absent at activation no custom trajectory is
\* installed, and no tick ends in an error or an invalid access.
C9_MissingClipIsNonFatal ==
  (WALKING_ANIMATION \notin skelAnims \/ STANDING_ANIMATION \notin skelAnims) =>
    (trajectoryInfo_ = "null" /\ fault = "none")

\* C10: in Path-Following, the tick that follows a path command with an
\* empty waypoint list, when it returns, has left the position unchanged,
\* the target index 0 and the waypoint list empty, and has set the current
\* target position to the actor's position.
C10_EmptyPathHolds ==
  [][(follow_mode_ = "path" /\ last_op = <<"path", <<>>>>
        /\ IsTick(last_op') /\ fault' = "none")
       => /\ pose'[1] = pose[1] /\ pose'[2] = pose[2]
          /\ idx_' = 0
          /\ target_poses_' = <<>>
          /\ target_pose_'[1] = pose'[1] /\ target_pose_'[2] = pose'[2]]_vars

\* C10 witness: a tick held position with the abort flag clear, that is on
\* an empty waypoint list, while the current target was away from the actor:
\* the list had been emptied by a path command, not by an earlier hold.
C10_Witness ==
  /\ follow_mode_ = "path"
  /\ ~abort_
  /\ last_op[1] = "tick" /\ last_op[2] = "hold" /\ last_op[3] > 0
  /\ target_poses_ = <<>> /\ idx_ = 0
  /\ target_pose_[1] = pose[1] /\ target_pose_[2] = pose[2]

----------------------------------------------------------------------------
(* Properties of the motion of a tick, under Spec *)

\* What a Path-Following tick taken in the current state selects, and the
\* angular error it steers by.
TickSelection == PathTarget(abort_, target_poses_, idx_, target_pose_, pose)
TickAngularError ==
  AngularError(Normalized(TickSelection.pos), pose[3], default_rotation_)

\* The translation of a step, and whether a translation m points along d.
Translation == <<pose'[1] - pose[1], pose'[2] - pose[2]>>
Towards(m, d) ==
  /\ m # <<0, 0>>
  /\ m[1] * d[2] = m[2] * d[1]
  /\ m[1] * d[1] + m[2] * d[2] > 0

\* The first half of the gate: a tick whose angular error exceeds the
\* tolerance does not translate and turns by rot_sign * ang_velocity_ * dt.
TurnsInPlace ==
  Abs(TickAngularError) > ang_tolerance_ =>
    /\ Translation = <<0, 0>>
    /\ pose'[3] = NormalizeDeg(pose[3] + RotSign(TickAngularError) * ang_velocity_ * last_op'[4])

\* C11 as stated: a returning Path-Following tick whose angular error
\* exceeds the angular tolerance does not translate and turns by
\* rot_sign * ang_velocity_ * dt; one whose angular error is within the
\* tolerance and whose current target is at a non-zero distance translates,
\* by a non-zero amount, toward that target.
C11_TurnThenMove ==
  [][(follow_mode_ = "path" /\ IsTick(last_op') /\ fault' = "none")
       => /\ TurnsInPlace
          /\ (Abs(TickAngularError) <= ang_tolerance_
                /\ Length(Displacement(target_pose_', pose)) # 0)
               => Towards(Translation, Displacement(target_pose_', pose))]_vars

\* C11 amended: the same, with the translation required only of a tick of
\* positive length dt whose displacement to the target it steers to is not
\* zero.
C11_TurnThenMoveInPositiveTime ==
  [][(follow_mode_ = "path" /\ IsTick(last_op') /\ fault' = "none")
       => /\ TurnsInPlace
          /\ (Abs(TickAngularError) <= ang_tolerance_
                /\ TickSelection.pos # <<0, 0>>
                /\ last_op'[4] > 0)
               => Towards(Translation, Displacement(target_pose_', pose))]_vars

\* C11 witness: a tick of positive length translated towards a target that
\* was away from the actor, after an earlier tick had turned the actor in
\* place (the heading is no longer the initial one).
C11_Witness ==
  /\ follow_mode_ = "path"
  /\ last_op[1] = "tick" /\ last_op[2] = "track" /\ last_op[3] > 0 /\ last_op[4] > 0
  /\ odom.lin # <<0, 0>>
  /\ <<pose[1], pose[2]>> # <<odom.x, odom.y>>
  /\ pose[3] # InitPose[3]

\* C12: a returning Path-Following tick taken with the abort flag clear and
\* a non-empty waypoint list never increases the distance from the actor to
\* the current target (the target the tick steers to).
C12_DistanceNeverIncreases ==
  [][(follow_mode_ = "path" /\ ~abort_ /\ target_poses_ # <<>>
        /\ IsTick(last_op') /\ fault' = "none")
       => Length(Displacement(target_pose_', pose'))
            <= Length(Displacement(target_pose_', pose))]_vars

\* C13: a tick with dt = 0, in either follow mode and in any state, leaves
\* the position (x, y) unchanged and does not advance the animation clock
\* (the distance travelled is zero).
C13_ZeroDtZeroMotion ==
  [][(IsTick(last_op') /\ last_op'[4] = 0)
       => /\ Translation = <<0, 0>>
          /\ script_time' = script_time]_vars

\* C13 witness: a tick with dt = 0 returned with a non-zero commanded linear
\* velocity in its twist, the position it wrote being the one it read.
C13_Witness ==
  /\ last_op[1] = "tick" /\ last_op[4] = 0
  /\ fault = "none"
  /\ odom.published
  /\ odom.lin # <<0, 0>>
  /\ <<pose[1], pose[2]>> = <<odom.x, odom.y>>

\* The motion the last tick commanded, as its twist records it, is zero:
\* no linear velocity and no angular error or rate to turn by.
CommandedMotionIsZero ==
  /\ odom.lin = <<0, 0>>
  /\ odom.ang.val = 0

\* C14: in both follow modes the clip a returning tick leaves selected is
\* "standing" exactly when the motion the tick commanded is zero, and
\* "walking" otherwise.
C14_ClipFollowsMotion ==
  (IsTick(last_op) /\ fault = "none") =>
    /\ trajectoryInfo_ = STANDING_ANIMATION <=> CommandedMotionIsZero
    /\ trajectoryInfo_ = WALKING_ANIMATION <=> ~CommandedMotionIsZero

\* C15: the odometry record a returning tick published carries the pose
\* that tick computed: its position (x, y) is the position the tick wrote
\* back to the actor.
C15_OdometryCarriesNewPose ==
  (IsTick(last_op) /\ fault = "none") =>
    /\ odom.published
    /\ <<odom.x, odom.y>> = <<pose[1], pose[2]>>

\* C16: the animation clock never decreases, and each tick advances it by
\* exactly the distance travelled in that tick times animation_factor_: not
\* at all on a tick without translation, by a positive amount on a tick
\* that translates.
C16_ClockAdvancesWithTravel ==
  [][/\ script_time' >= script_time
     /\ IsTick(last_op') =>
          /\ script_time' = script_time + Length(Translation) * animation_factor_
          /\ (Translation = <<0, 0>>) <=> (script_time' = script_time)]_vars

\* C16 witness: the clock has advanced on earlier translating ticks, and
\* the last tick, a hold, left the actor where it had read it.
C16_Witness ==
  /\ script_time > 0
  /\ last_op[1] = "tick" /\ last_op[2] = "hold"
  /\ fault = "none"
  /\ <<pose[1], pose[2]>> = <<odom.x, odom.y>>

\* C18: abort is destructive for the pending path.  A returning
\* Path-Following tick taken with the abort flag set leaves the waypoint
\* list empty; and from then until a path command is handled, whatever the
\* abort handler does to the flag, the list stays empty and every returning
\* tick takes the hold-position branch and leaves the position unchanged.
C18_AbortDiscardsPath ==
  [][/\ (follow_mode_ = "path" /\ abort_ /\ IsTick(last_op') /\ fault' = "none")
          => target_poses_' = <<>>
     /\ (follow_mode_ = "path" /\ abandoned # <<>> /\ last_op'[1] # "path")
          => /\ target_poses_' = <<>>
             /\ (IsTick(last_op') /\ fault' = "none")
                  => (last_op'[2] = "hold" /\ Translation = <<0, 0>>)]_vars

\* C18 witness: a tick under abort discarded a non-empty waypoint list, the
\* abort handler then cleared the flag, no path command followed, and the
\* last tick held position on the empty list, away from where the actor
\* started.
C18_Witness ==
  /\ follow_mode_ = "path"
  /\ abandoned # <<>>
  /\ ~abort_
  /\ last_op[1] = "tick" /\ last_op[2] = "hold" /\ last_op[4] > 0
  /\ target_poses_ = <<>>
  /\ <<pose[1], pose[2]>> # <<InitPose[1], InitPose[2]>>

\* C19: the follow modes touch disjoint target state.  A Velocity-Following
\* tick leaves the waypoint list, the target index, the current target and
\* the abort flag unchanged; a Path-Following tick leaves the velocity
\* sample queue and the held requested velocity unchanged; and no tick and
\* no handler changes the follow mode.
C19_ModesTouchDisjointState ==
  [][/\ follow_mode_' = follow_mode_
     /\ (IsTick(last_op') /\ follow_mode_ = "velocity")
          => (/\ target_poses_' = target_poses_
              /\ idx_' = idx_
              /\ target_pose_' = target_pose_
              /\ abort_' = abort_)
     /\ (IsTick(last_op') /\ follow_mode_ = "path")
          => (cmd_queue_' = cmd_queue_ /\ target_vel_' = target_vel_)]_vars

\* C19 witness: a Path-Following tick translated the actor while a velocity
\* sample was pending, and the sample is still in the queue.
C19_Witness ==
  /\ follow_mode_ = "path"
  /\ last_op[1] = "tick" /\ last_op[2] = "track" /\ last_op[4] > 0
  /\ fault = "none"
  /\ cmd_queue_ # <<>>
  /\ cmd_queue_ = pushed
  /\ <<pose[1], pose[2]>> # <<odom.x, odom.y>>

----------------------------------------------------------------------------
(* Properties of the threads, under RaceSpec *)

\* The waypoint list and target index as a command that PathCallback is
\* applying found them, and as the command leaves them.
BeforeCommand == path_w.pre
AfterCommand == <<Waypoints(path_w.msg), 0>>

\* C5: a tick never observes a half-applied command: whenever the tick is
\* about to read the waypoint list and the abort flag (the hold test) or the
\* target index and the list's size (the last-waypoint test) while
\* PathCallback is applying a command, the list and the index are together
\* as they were before that command or together as they are after it.
C5_TickSeesWholeCommands ==
  (tick_pc \in {"test", "last"} /\ path_w.pc # "idle") =>
    <<target_poses_, idx_>> \in {BeforeCommand, AfterCommand}

\* C6: in Path-Following a non-empty waypoint list always has the target
\* index inside it, and no tick reads a waypoint at an index at or past the
\* list's length.
C6_IndexInRange ==
  /\ (follow_mode_ = "path" /\ target_poses_ # <<>>) =>
       (0 <= idx_ /\ idx_ < Len(target_poses_))
  /\ fault # "out_of_range"

IsPrefix(a, b) ==
  /\ Len(a) <= Len(b)
  /\ \A i \in 1..Len(a) : a[i] = b[i]

\* C8: with VelCallback pushing while the tick pops, the samples the ticks
\* consume are the samples VelCallback pushed, in the order it pushed them,
\* and the held requested velocity is that of the sample consumed last.
C8_SamplesAppliedInOrder ==
  /\ IsPrefix(applied, pushed)
  /\ applied # <<>> => target_vel_ = HeldVelocity(applied[Len(applied)])
  /\ applied = <<>> => target_vel_ = <<0, 0>>

\* C17: a path command with a non-empty waypoint list is not discarded by a
\* tick that runs concurrently with it: from the return of PathCallback
\* until the next command is handled or the next tick returns, the waypoint
\* list is the command's list.
C17_CommandSurvivesTick ==
  (last_op[1] = "path" /\ last_op[2] # <<>> /\ path_w.pc = "idle") =>
    target_poses_ = Waypoints(last_op[2])

----------------------------------------------------------------------------
(* Properties of the destructor, under ShutdownSpec *)

\* C7: shutdown always completes: once the destructor has started, each
\* worker's loop ends after its queue is disabled, each join returns, and
\* the destructor reaches its end.
C7_ShutdownCompletes ==
  (dtor_pc.step # "alive") ~> (dtor_pc.step = "done")

====
